---- MODULE Spec2Model ----
(***************************************************************************)
(* create_rust_dictionary_file of src/create_dict.py: read a tab-separated *)
(* dictionary, keep the single-token, letters-only words of the first      *)
(* column, group them by length, sort and pad every group to the size of   *)
(* the largest one, and write all groups but the first as a Rust array.    *)
(*                                                                         *)
(* A string is a sequence of one-character strings.  The output file is a  *)
(* sequence of written lines, each a record [kind, word, inner, outer].    *)
(***************************************************************************)
EXTENDS Integers, Sequences, FiniteSets, TLC

VARIABLES pc, line, nread, length_dict, max_length, result, keyidx,
          gi, wi, disk, disk0, err

vars == <<pc, line, nread, length_dict, max_length, result, keyidx,
          gi, wi, disk, disk0, err>>

\* Bounds of the model: lines per input file and characters per line in
\* Spec, characters of the line in SpecFilter.
MaxLines == 3
MaxLineLen == 3
MaxFilterLen == 4

\* Representatives of the character classes the code tells apart:
\* [a-zA-Z] (one lower case, one upper case), a digit, a non-ASCII letter,
\* the comma, the tab, and whitespace (blank, tab, line terminator).
Letters == {"a", "B"}
Whitespace == {" ", "\t", "\n"}
Alphabet == {"a", "B", "1", "é", ",", " ", "\t"}

\* Code point of a character (the order Python compares str by).
Ord(c) ==
  CASE c = "\t" -> 9
    [] c = "\n" -> 10
    [] c = " " -> 32
    [] c = "," -> 44
    [] c = "1" -> 49
    [] c = "B" -> 66
    [] c = "a" -> 97
    [] c = "é" -> 233

\* The lines an input file can hold (without their terminator).
StringsUpTo(n) == UNION {[1..k -> Alphabet] : k \in 0..n}
Lines == StringsUpTo(MaxLineLen)
FilterLines == StringsUpTo(MaxFilterLen)

(***************************************************************************)
(* str methods                                                             *)
(***************************************************************************)

\* str.split(sep): the fields between the occurrences of sep.
RECURSIVE Split(_, _)
Split(s, sep) ==
  IF \A i \in 1..Len(s) : s[i] # sep
  THEN <<s>>
  ELSE LET p == CHOOSE i \in 1..Len(s) :
                  s[i] = sep /\ \A j \in 1..(i - 1) : s[j] # sep
       IN <<SubSeq(s, 1, p - 1)>> \o Split(SubSeq(s, p + 1, Len(s)), sep)

RECURSIVE LStrip(_)
LStrip(s) ==
  IF s # <<>> /\ Head(s) \in Whitespace THEN LStrip(Tail(s)) ELSE s

RECURSIVE RStrip(_)
RStrip(s) ==
  IF s # <<>> /\ s[Len(s)] \in Whitespace
  THEN RStrip(SubSeq(s, 1, Len(s) - 1))
  ELSE s

\* str.strip(): leading and trailing whitespace removed.
Strip(s) == RStrip(LStrip(s))

\* str.split() without argument: the maximal runs of non-whitespace.
RECURSIVE SplitWs(_)
SplitWs(s) ==
  LET t == LStrip(s)
  IN IF t = <<>>
     THEN <<>>
     ELSE IF \A i \in 1..Len(t) : t[i] \notin Whitespace
          THEN <<t>>
          ELSE LET p == CHOOSE i \in 1..Len(t) :
                          t[i] \in Whitespace
                          /\ \A j \in 1..(i - 1) : t[j] \notin Whitespace
               IN <<SubSeq(t, 1, p - 1)>> \o SplitWs(SubSeq(t, p + 1, Len(t)))

\* A plausible slip: str.isalpha(), which accepts every Unicode letter.
IsAlpha(w) ==
  Len(w) >= 1 /\ \A i \in 1..Len(w) : w[i] \in Letters \cup {"é"}

\* re.match(r'^[a-zA-Z]+$', w): one or more ASCII letters; $ also matches
\* just before a final line terminator.
ReMatch(w) ==
  LET body == IF w # <<>> /\ w[Len(w)] = "\n"
              THEN SubSeq(w, 1, Len(w) - 1)
              ELSE w
  IN Len(body) >= 1 /\ \A i \in 1..Len(body) : body[i] \in Letters

(***************************************************************************)
(* length_dict: a defaultdict(list), kept in key insertion order as a      *)
(* sequence of [key, words] items.                                         *)
(***************************************************************************)

Keys(d) == {d[i].key : i \in 1..Len(d)}

Group(d, k) == d[CHOOSE i \in 1..Len(d) : d[i].key = k].words

\* length_dict[k].append(w)
DictAppend(d, k, w) ==
  IF k \in Keys(d)
  THEN [i \in 1..Len(d) |->
          IF d[i].key = k
          THEN [key |-> k, words |-> Append(d[i].words, w)]
          ELSE d[i]]
  ELSE Append(d, [key |-> k, words |-> <<w>>])

\* for word in words: if word and re.match(...): length_dict[len(word)].append(word)
RECURSIVE AddWords(_, _)
AddWords(d, words) ==
  IF words = <<>>
  THEN d
  ELSE LET word == Head(words)
       IN AddWords(IF word # <<>> /\ ReMatch(word)
                   THEN DictAppend(d, Len(word), word)
                   ELSE d,
                   Tail(words))

\* The first column of a line: the text before the first tab, stripped.
FirstColumn(l) == Strip(Split(l, "\t")[1])

\* words = [word.strip() for word in first_column.split(',')]
CommaWords(first_column) ==
  LET fields == Split(first_column, ",")
  IN [i \in 1..Len(fields) |-> Strip(fields[i])]

\* The body of the loop over the lines of the input file.
ProcessLine(d, l) ==
  LET first_column == FirstColumn(l)
  IN IF Len(SplitWs(first_column)) = 1
     THEN AddWords(d, CommaWords(first_column))
     ELSE d

(***************************************************************************)
(* Sorting, padding and the rows of the table                              *)
(***************************************************************************)

\* a <= b for two str: code point by code point, a proper prefix first.
RECURSIVE LexLE(_, _)
LexLE(a, b) ==
  IF a = <<>> THEN TRUE
  ELSE IF b = <<>> THEN FALSE
  ELSE IF Ord(Head(a)) < Ord(Head(b)) THEN TRUE
  ELSE IF Ord(Head(a)) > Ord(Head(b)) THEN FALSE
  ELSE LexLE(Tail(a), Tail(b))

\* w put into the ascending list s, after the elements equal to it.
RECURSIVE Insert(_, _)
Insert(s, w) ==
  IF s = <<>> THEN <<w>>
  ELSE IF LexLE(Head(s), w) THEN <<Head(s)>> \o Insert(Tail(s), w)
  ELSE <<w>> \o s

RECURSIVE InsertionSort(_)
InsertionSort(s) ==
  IF s = <<>> THEN <<>>
  ELSE Insert(InsertionSort(SubSeq(s, 1, Len(s) - 1)), s[Len(s)])

\* A plausible slip: the group left in the order of the input.
Sorted_unsorted(s) == s

\* A plausible slip: sorted(set(...)), which drops the duplicates.
RECURSIVE Dedup(_)
Dedup(s) ==
  IF Len(s) <= 1 THEN s
  ELSE IF s[1] = s[2] THEN Dedup(Tail(s))
  ELSE <<Head(s)>> \o Dedup(Tail(s))

Sorted_set(s) == Dedup(InsertionSort(s))

\* sorted(length_dict[key]): a new list, ascending.
Sorted(s) == InsertionSort(s)

\* A plausible slip: the keys in the order the dict holds them.
SortedKeys_insertion(d) == [i \in 1..Len(d) |-> d[i].key]

RECURSIVE SortedKeysOf(_)
SortedKeysOf(ks) ==
  IF ks = {} THEN <<>>
  ELSE LET m == CHOOSE k \in ks : \A j \in ks : k <= j
       IN <<m>> \o SortedKeysOf(ks \ {m})

\* sorted(length_dict): the keys, ascending.
SortedKeys(d) == SortedKeysOf(Keys(d))

\* max(len(group) for group in length_dict.values()), for a non-empty dict.
MaxGroupSize(d) ==
  LET sizes == {Len(d[i].words) : i \in 1..Len(d)}
  IN CHOOSE n \in sizes : \A m \in sizes : m <= n

\* An element of a row: a word, or None.
Word(w) == [none |-> FALSE, word |-> w]
None == [none |-> TRUE, word |-> <<>>]

\* while len(sorted_words) < max_length: sorted_words.append(None)
RECURSIVE PadNone(_, _)
PadNone(row, n) ==
  IF Len(row) < n THEN PadNone(Append(row, None), n) ELSE row

\* A plausible slip: no padding at all.
PadRow_nopad(row, n) == SubSeq(row, 1, IF n < Len(row) THEN n ELSE Len(row))

\* The padding loop followed by the slice sorted_words[:max_length].
PadRow(row, n) ==
  LET padded == PadNone(row, n)
  IN SubSeq(padded, 1, IF n < Len(padded) THEN n ELSE Len(padded))

\* The row appended to result for one key.
BuildRowFor(d, key, n) ==
  LET sorted_words == Sorted(Group(d, key))
  IN PadRow([i \in 1..Len(sorted_words) |-> Word(sorted_words[i])], n)

(***************************************************************************)
(* The lines written to the output file                                    *)
(***************************************************************************)

Plain(k) == [kind |-> k, word |-> <<>>, inner |-> 0, outer |-> 0]

\* A plausible slip: the outer dimension counts the excluded first group.
FnLine_allrows(n, res) ==
  [kind |-> "fn", word |-> <<>>, inner |-> n, outer |-> Len(res)]

\* 'pub fn get_dictionary() -> [[Option<&'static str>; {}]; {}] {{'
\*   .format(max_length, len(result)-1)
FnLine(n, res) ==
  [kind |-> "fn", word |-> <<>>, inner |-> n, outer |-> Len(res) - 1]

SomeLine(w) == [kind |-> "some", word |-> w, inner |-> 0, outer |-> 0]

\* result[1:]: the groups that are written.
Emitted(res) == SubSeq(res, 2, Len(res))

\* The state of the output path: whether the file exists, and its lines.
OldContent == <<Plain("old")>>
DiskStates == {[exists |-> FALSE, content |-> <<>>],
               [exists |-> TRUE, content |-> OldContent]}

WritePcs == {"w_fn", "w_outer_open", "w_group_open", "w_word",
             "w_group_close", "w_outer_close", "w_fn_close", "close"}

Write(l) == disk' = [disk EXCEPT !.content = Append(@, l)]

(***************************************************************************)
(* The steps of create_rust_dictionary_file                                *)
(***************************************************************************)

Init ==
  /\ pc = "open_in"
  /\ line = <<>>
  /\ nread = 0
  /\ length_dict = <<>>
  /\ max_length = 0
  /\ result = <<>>
  /\ keyidx = 0
  /\ gi = 0
  /\ wi = 0
  /\ disk \in DiskStates
  /\ disk0 = disk
  /\ err = "none"

\* open(input_file, 'r') succeeds.
OpenInput ==
  /\ pc = "open_in"
  /\ pc' = "read"
  /\ UNCHANGED <<line, nread, length_dict, max_length, result, keyidx,
                 gi, wi, disk, disk0, err>>

\* open(input_file, 'r') raises.
OpenInputFail ==
  /\ pc = "open_in"
  /\ pc' = "error"
  /\ err' = "OSError"
  /\ UNCHANGED <<line, nread, length_dict, max_length, result, keyidx,
                 gi, wi, disk, disk0>>

\* One iteration of "for line in infile": the next line of the file, with
\* its terminator, goes through the filter into length_dict.  The line is
\* local to the step; SpecFilter below keeps it in the state.
ReadLine ==
  /\ pc = "read"
  /\ nread < MaxLines
  /\ \E l \in Lines :
       length_dict' = ProcessLine(length_dict, l \o <<"\n">>)
  /\ nread' = nread + 1
  /\ UNCHANGED <<pc, line, max_length, result, keyidx, gi, wi,
                 disk, disk0, err>>

\* The file is exhausted: the loop and the with block end.
EndOfFile ==
  /\ pc = "read"
  /\ pc' = "max"
  /\ UNCHANGED <<line, nread, length_dict, max_length, result, keyidx,
                 gi, wi, disk, disk0, err>>

\* A plausible slip: max(..., default=0), which lets an empty dict through.
ComputeMax_default ==
  /\ pc = "max"
  /\ max_length' = IF length_dict = <<>> THEN 0 ELSE MaxGroupSize(length_dict)
  /\ pc' = IF length_dict = <<>> THEN "open_out" ELSE "build"
  /\ UNCHANGED <<line, nread, length_dict, result, keyidx, gi, wi,
                 disk, disk0, err>>

\* max_length = max(...): ValueError on an empty length_dict.
ComputeMax ==
  /\ pc = "max"
  /\ IF length_dict = <<>>
     THEN /\ pc' = "error"
          /\ err' = "ValueError"
          /\ UNCHANGED max_length
     ELSE /\ pc' = "build"
          /\ max_length' = MaxGroupSize(length_dict)
          /\ UNCHANGED err
  /\ UNCHANGED <<line, nread, length_dict, result, keyidx, gi, wi,
                 disk, disk0>>

\* One iteration of "for key in sorted(length_dict)".
BuildRow ==
  /\ pc = "build"
  /\ LET keys == SortedKeys(length_dict)
     IN /\ keyidx < Len(keys)
        /\ result' = Append(result,
                            BuildRowFor(length_dict, keys[keyidx + 1],
                                        max_length))
        /\ keyidx' = keyidx + 1
        /\ pc' = IF keyidx + 1 < Len(keys) THEN "build" ELSE "open_out"
  /\ UNCHANGED <<line, nread, length_dict, max_length, gi, wi,
                 disk, disk0, err>>

\* open(output_file, 'w') succeeds: the file is created or truncated.
OpenOutput ==
  /\ pc = "open_out"
  /\ disk' = [exists |-> TRUE, content |-> <<>>]
  /\ pc' = "w_fn"
  /\ UNCHANGED <<line, nread, length_dict, max_length, result, keyidx,
                 gi, wi, disk0, err>>

\* open(output_file, 'w') raises.
OpenOutputFail ==
  /\ pc = "open_out"
  /\ pc' = "error"
  /\ err' = "OSError"
  /\ UNCHANGED <<line, nread, length_dict, max_length, result, keyidx,
                 gi, wi, disk, disk0>>

WriteFn ==
  /\ pc = "w_fn"
  /\ Write(FnLine(max_length, result))
  /\ pc' = "w_outer_open"
  /\ UNCHANGED <<line, nread, length_dict, max_length, result, keyidx,
                 gi, wi, disk0, err>>

WriteOuterOpen ==
  /\ pc = "w_outer_open"
  /\ Write(Plain("outer_open"))
  /\ gi' = 1
  /\ pc' = IF Len(Emitted(result)) >= 1 THEN "w_group_open"
           ELSE "w_outer_close"
  /\ UNCHANGED <<line, nread, length_dict, max_length, result, keyidx,
                 wi, disk0, err>>

WriteGroupOpen ==
  /\ pc = "w_group_open"
  /\ Write(Plain("group_open"))
  /\ wi' = 1
  /\ pc' = IF Len(Emitted(result)[gi]) >= 1 THEN "w_word"
           ELSE "w_group_close"
  /\ UNCHANGED <<line, nread, length_dict, max_length, result, keyidx,
                 gi, disk0, err>>

\* One iteration of "for word in group".
WriteWord ==
  /\ pc = "w_word"
  /\ LET group == Emitted(result)[gi]
         word == group[wi]
     IN /\ \/ /\ ~word.none
              /\ Write(SomeLine(word.word))
           \/ /\ word.none
              /\ Write(Plain("none"))
        /\ wi' = wi + 1
        /\ pc' = IF wi < Len(group) THEN "w_word" ELSE "w_group_close"
  /\ UNCHANGED <<line, nread, length_dict, max_length, result, keyidx,
                 gi, disk0, err>>

WriteGroupClose ==
  /\ pc = "w_group_close"
  /\ Write(Plain("group_close"))
  /\ gi' = gi + 1
  /\ pc' = IF gi < Len(Emitted(result)) THEN "w_group_open"
           ELSE "w_outer_close"
  /\ UNCHANGED <<line, nread, length_dict, max_length, result, keyidx,
                 wi, disk0, err>>

WriteOuterClose ==
  /\ pc = "w_outer_close"
  /\ Write(Plain("outer_close"))
  /\ pc' = "w_fn_close"
  /\ UNCHANGED <<line, nread, length_dict, max_length, result, keyidx,
                 gi, wi, disk0, err>>

WriteFnClose ==
  /\ pc = "w_fn_close"
  /\ Write(Plain("fn_close"))
  /\ pc' = "close"
  /\ UNCHANGED <<line, nread, length_dict, max_length, result, keyidx,
                 gi, wi, disk0, err>>

\* The with block ends: the file is flushed and closed.
CloseOutput ==
  /\ pc = "close"
  /\ pc' = "done"
  /\ UNCHANGED <<line, nread, length_dict, max_length, result, keyidx,
                 gi, wi, disk, disk0, err>>

\* A write (or the final flush) raises: the exception leaves the function
\* and the file keeps what has reached it.
WriteFail ==
  /\ pc \in WritePcs
  /\ pc' = "error"
  /\ err' = "OSError"
  /\ UNCHANGED <<line, nread, length_dict, max_length, result, keyidx,
                 gi, wi, disk, disk0>>

Next ==
  \/ OpenInput
  \/ OpenInputFail
  \/ ReadLine
  \/ EndOfFile
  \/ ComputeMax
  \/ BuildRow
  \/ OpenOutput
  \/ OpenOutputFail
  \/ WriteFn
  \/ WriteOuterOpen
  \/ WriteGroupOpen
  \/ WriteWord
  \/ WriteGroupClose
  \/ WriteOuterClose
  \/ WriteFnClose
  \/ CloseOutput
  \/ WriteFail

Spec == Init /\ [][Next]_vars

(***************************************************************************)
(* The filter alone: the loop body applied to the first line of a file,    *)
(* for every line of up to MaxFilterLen characters.                        *)
(***************************************************************************)

InitFilter ==
  /\ pc = "read"
  /\ line \in {l \o <<"\n">> : l \in FilterLines}
  /\ nread = 0
  /\ length_dict = <<>>
  /\ max_length = 0
  /\ result = <<>>
  /\ keyidx = 0
  /\ gi = 0
  /\ wi = 0
  /\ disk \in DiskStates
  /\ disk0 = disk
  /\ err = "none"

\* The body of "for line in infile" on the line read.
FilterLine ==
  /\ pc = "read"
  /\ nread = 0
  /\ length_dict' = ProcessLine(length_dict, line)
  /\ nread' = 1
  /\ UNCHANGED <<pc, line, max_length, result, keyidx, gi, wi,
                 disk, disk0, err>>

NextFilter == FilterLine

SpecFilter == InitFilter /\ [][NextFilter]_vars

(***************************************************************************)
(* Reading the written file back                                           *)
(***************************************************************************)

RECURSIVE TakeElems(_)
TakeElems(f) ==
  IF f # <<>> /\ Head(f).kind \in {"some", "none"}
  THEN <<Head(f)>> \o TakeElems(Tail(f))
  ELSE <<>>

\* The rows of the array literal in a file: for every line that opens a
\* row, the Some/None lines that follow it.
RECURSIVE FileRows(_)
FileRows(f) ==
  IF f = <<>> THEN <<>>
  ELSE IF Head(f).kind = "group_open"
       THEN <<TakeElems(Tail(f))>> \o FileRows(Tail(f))
       ELSE FileRows(Tail(f))

EmittedRows == FileRows(disk.content)

\* The words written as Some("...") in a row.
RowWords(row) ==
  LET idx == {i \in 1..Len(row) : row[i].kind = "some"}
  IN {row[i].word : i \in idx}

CountIn(w, seq) == Cardinality({i \in 1..Len(seq) : seq[i] = w})

CountInRow(w, row) ==
  Cardinality({i \in 1..Len(row) : row[i].kind = "some" /\ row[i].word = w})

MinKey(d) == CHOOSE k \in Keys(d) : \A j \in Keys(d) : k <= j

\* The complete table for a result, line by line.
RECURSIVE RenderRow(_)
RenderRow(row) ==
  IF row = <<>> THEN <<>>
  ELSE <<IF Head(row).none THEN Plain("none") ELSE SomeLine(Head(row).word)>>
       \o RenderRow(Tail(row))

RECURSIVE RenderRows(_)
RenderRows(rows) ==
  IF rows = <<>> THEN <<>>
  ELSE <<Plain("group_open")>> \o RenderRow(Head(rows))
       \o <<Plain("group_close")>> \o RenderRows(Tail(rows))

CompleteTable ==
  <<[kind |-> "fn", word |-> <<>>, inner |-> max_length,
     outer |-> Len(result) - 1]>>
  \o <<Plain("outer_open")>> \o RenderRows(SubSeq(result, 2, Len(result)))
  \o <<Plain("outer_close"), Plain("fn_close")>>

(***************************************************************************)
(* The first column of the line of SpecFilter, position by position        *)
(***************************************************************************)

\* The last position before the first tab.
ColEnd ==
  IF \E i \in 1..Len(line) : line[i] = "\t"
  THEN (CHOOSE i \in 1..Len(line) :
          line[i] = "\t" /\ \A j \in 1..(i - 1) : line[j] # "\t") - 1
  ELSE Len(line)

NonWs == {i \in 1..ColEnd : line[i] \notin Whitespace}

\* The non-whitespace positions before the first tab form one run.
SingleToken ==
  /\ NonWs # {}
  /\ \A i \in NonWs : \A j \in NonWs : \A k \in i..j : k \in NonWs

TokLo == CHOOSE i \in NonWs : \A j \in NonWs : i <= j
TokHi == CHOOSE i \in NonWs : \A j \in NonWs : j <= i

\* The pairs of neighbouring delimiters (a comma or an end of the token).
Pieces ==
  {p \in ((TokLo - 1)..TokHi) \X (TokLo..(TokHi + 1)) :
     /\ p[1] < p[2]
     /\ p[1] = TokLo - 1 \/ line[p[1]] = ","
     /\ p[2] = TokHi + 1 \/ line[p[2]] = ","
     /\ \A k \in (p[1] + 1)..(p[2] - 1) : line[k] # ","}

PieceText(p) == SubSeq(line, p[1] + 1, p[2] - 1)

OnlyLetters(w) == w # <<>> /\ \A i \in 1..Len(w) : w[i] \in Letters

EligiblePieces == {p \in Pieces : OnlyLetters(PieceText(p))}

DictSize(d) ==
  LET RECURSIVE Sum(_)
      Sum(i) == IF i = 0 THEN 0 ELSE Len(d[i].words) + Sum(i - 1)
  IN Sum(Len(d))

(***************************************************************************)
(* Claims                                                                  *)
(***************************************************************************)

\* C1: after the loop body has run on a line, the strings added to the
\* length groups are exactly the non-empty, letters-only comma-separated
\* sub-entries of the first column, each as often as it occurs and each in
\* the group of its length, when the first column is a single
\* whitespace-delimited token; a first column with no token or with two or
\* more tokens adds nothing.
C1_FilterIff ==
  nread = 1 =>
    /\ \A g \in 1..Len(length_dict) :
         \A i \in 1..Len(length_dict[g].words) :
           /\ OnlyLetters(length_dict[g].words[i])
           /\ Len(length_dict[g].words[i]) = length_dict[g].key
    /\ IF SingleToken
       THEN /\ DictSize(length_dict) = Cardinality(EligiblePieces)
            /\ \A p \in EligiblePieces :
                 /\ Len(PieceText(p)) \in Keys(length_dict)
                 /\ CountIn(PieceText(p),
                            Group(length_dict, Len(PieceText(p))))
                    = Cardinality({q \in EligiblePieces :
                                     PieceText(q) = PieceText(p)})
       ELSE length_dict = <<>>

\* A single-token first column with an accepted sub-entry and a rejected
\* non-empty one has gone through the filter.
C1_Witness ==
  /\ nread = 1
  /\ SingleToken
  /\ EligiblePieces # {}
  /\ \E q \in Pieces : PieceText(q) # <<>> /\ ~OnlyLetters(PieceText(q))
  /\ length_dict # <<>>

\* C2: every row of the written table has exactly max_size elements, where
\* max_size is the size of the largest of all groups of length_dict, the
\* group left out of the table included.
C2_RowsHaveMaxSize ==
  pc = "done" =>
    \A r \in 1..Len(EmittedRows) :
      /\ \E g \in 1..Len(length_dict) :
           Len(length_dict[g].words) = Len(EmittedRows[r])
      /\ \A g \in 1..Len(length_dict) :
           Len(length_dict[g].words) <= Len(EmittedRows[r])

\* A table is written whose left-out first group is strictly larger than
\* every written group, so that every written row is padded.
C2_Witness ==
  /\ pc = "done"
  /\ Len(EmittedRows) >= 1
  /\ \A k \in Keys(length_dict) \ {MinKey(length_dict)} :
       Len(Group(length_dict, k)) < Len(Group(length_dict, MinKey(length_dict)))
  /\ \A r \in 1..Len(EmittedRows) :
       EmittedRows[r][Len(EmittedRows[r])].kind = "none"

\* C3 (as claimed): the i-th written row, counting from 0, holds only
\* entries of length i+2.
C3_RowIndexIsLength ==
  pc = "done" =>
    \A r \in 1..Len(EmittedRows) :
      \A w \in RowWords(EmittedRows[r]) : Len(w) = r + 1

\* C4 (as claimed): no entry of length 1 is written and every surviving
\* entry of length 2 or more is written.
C4_OnlyLengthOneLeftOut ==
  pc = "done" =>
    /\ \A r \in 1..Len(EmittedRows) :
         \A w \in RowWords(EmittedRows[r]) : Len(w) # 1
    /\ \A g \in 1..Len(length_dict) :
         \A i \in 1..Len(length_dict[g].words) :
           Len(length_dict[g].words[i]) >= 2 =>
             \E r \in 1..Len(EmittedRows) :
               length_dict[g].words[i] \in RowWords(EmittedRows[r])

\* C5: in every written row the real entries are in ascending code-point
\* order and no None comes before a real entry.
C5_RowsSortedNoneLast ==
  pc = "done" =>
    \A r \in 1..Len(EmittedRows) :
      \A i \in 1..(Len(EmittedRows[r]) - 1) :
        LET a == EmittedRows[r][i]
            b == EmittedRows[r][i + 1]
        IN /\ a.kind = "none" => b.kind = "none"
           /\ (a.kind = "some" /\ b.kind = "some") => LexLE(a.word, b.word)

\* A written row holds an upper-case entry before a lower-case one that the
\* input gave in the other order.
C5_Witness ==
  /\ pc = "done"
  /\ \E r \in 1..Len(EmittedRows) :
       \E i \in 1..(Len(EmittedRows[r]) - 1) :
         LET a == EmittedRows[r][i]
             b == EmittedRows[r][i + 1]
         IN /\ a.kind = "some" /\ b.kind = "some" /\ a.word # b.word
            /\ \E g \in 1..Len(length_dict) :
                 \E m, n \in 1..Len(length_dict[g].words) :
                   /\ m < n
                   /\ length_dict[g].words[m] = b.word
                   /\ length_dict[g].words[n] = a.word

\* C6: when no entry survives the filter, the function stops at the
\* computation of the maximum with an error: it never reaches the opening
\* of the output file, and the output path stays as it was.
C6_EmptyIsFatal ==
  length_dict = <<>> =>
    /\ pc \in {"open_in", "read", "max", "error"}
    /\ disk = disk0
    /\ (pc = "error" /\ nread > 0) => err = "ValueError"

\* A file with at least one line, all rejected, has ended in the error,
\* with an output file in place before the run.
C6_Witness ==
  /\ pc = "error"
  /\ err = "ValueError"
  /\ nread >= 1
  /\ length_dict = <<>>
  /\ disk0.exists
  /\ disk = disk0

\* C7 (as claimed): after a failure the output path holds its previous
\* content or a complete table.
C7_NoPartialOutput ==
  pc = "error" =>
    \/ disk = disk0
    \/ disk.content = CompleteTable

\* C8: the table has one row for every group but the first, and the real
\* entries of that row are the entries of the group, each as often as the
\* input gave it.
C8_RowsKeepEveryEntry ==
  pc = "done" =>
    /\ Len(EmittedRows) = Len(length_dict) - 1
    /\ \A k \in Keys(length_dict) \ {MinKey(length_dict)} :
         \E r \in 1..Len(EmittedRows) :
           \A w \in RowWords(EmittedRows[r])
                    \cup {Group(length_dict, k)[i] :
                            i \in 1..Len(Group(length_dict, k))} :
             CountInRow(w, EmittedRows[r]) = CountIn(w, Group(length_dict, k))

\* A written row holds the same entry twice.
C8_Witness ==
  /\ pc = "done"
  /\ \E r \in 1..Len(EmittedRows) :
       \E i \in 1..(Len(EmittedRows[r]) - 1) :
         /\ EmittedRows[r][i].kind = "some"
         /\ EmittedRows[r][i + 1] = EmittedRows[r][i]

\* C9: every written row holds entries of one length, and that length
\* grows strictly from each row to the next.
C9_RowsAscendingByLength ==
  pc = "done" =>
    /\ \A r \in 1..Len(EmittedRows) :
         /\ RowWords(EmittedRows[r]) # {}
         /\ \A v, w \in RowWords(EmittedRows[r]) : Len(v) = Len(w)
    /\ \A r \in 1..(Len(EmittedRows) - 1) :
         \A v \in RowWords(EmittedRows[r]) :
           \A w \in RowWords(EmittedRows[r + 1]) : Len(v) < Len(w)

\* Two rows are written for an input that gave the longest entries first.
C9_Witness ==
  /\ pc = "done"
  /\ Len(EmittedRows) >= 2
  /\ \A g \in 1..(Len(length_dict) - 1) :
       length_dict[g].key > length_dict[g + 1].key

\* C10: the first line of a finished file declares as inner size the
\* number of elements of every written row and as outer size the number of
\* written rows.
C10_DeclaredDimensions ==
  pc = "done" =>
    /\ disk.content[1].kind = "fn"
    /\ disk.content[1].outer = Len(EmittedRows)
    /\ \A r \in 1..Len(EmittedRows) :
         Len(EmittedRows[r]) = disk.content[1].inner

\* A finished file declares and holds two rows.
C10_Witness ==
  /\ pc = "done"
  /\ disk.content[1].outer = 2
  /\ Len(EmittedRows) = 2

====
